---- MODULE Spec2Model ----
(***************************************************************************)
(* Model of redteam.py: the experiment driver (main), the configuration    *)
(* matrix (get_setting_combinations), the metric and the sequential        *)
(* evaluation passes (evaluate_baseline, eval_program_manual), the worker  *)
(* pools of eval_program / compile_program and the construction of the     *)
(* attack programs (choose_attack_program).                                *)
(*                                                                         *)
(* Scores are kept in halves (a value v stands for v/2) so that the        *)
(* half-way cases of Python's round() are representable.                   *)
(***************************************************************************)
EXTENDS Integers, Sequences, FiniteSets, TLC

VARIABLES
    \* get_setting_combinations
    args, settings, combPc,
    \* metric
    scale, rating, eval_round, metricRet, metricErr, metricPc,
    \* evaluate_baseline / eval_program_manual
    passKind, valset, visited, score, scoreLog, failedAt, passRet, passPc,
    \* the worker pool of one harness call (eval_program, compile_program)
    num_threads, callKind, poolSize, pending, inFlight, poolPc,
    \* one attack program and its execution over one intent
    bSetting, bProg, buffer, inserted, layer, bufPc,
    \* main
    save, i, pc, error, prog, nextId, base_score, initial_score,
    optimized_scores, round, results, savefile,
    \* main, history: the steps, the optimize calls and the evaluations of the
    \* setting under way, the settings recorded, the programs of earlier settings
    steps, optIn, optOut, evalLog, built, emitted, earlier

combVars   == <<args, settings, combPc>>
metricVars == <<scale, rating, eval_round, metricRet, metricErr, metricPc>>
passVars   == <<passKind, valset, visited, score, scoreLog, failedAt, passRet, passPc>>
poolVars   == <<num_threads, callKind, poolSize, pending, inFlight, poolPc>>
progVars   == <<bSetting, bProg, buffer, inserted, layer, bufPc>>
mainVars   == <<save, i, pc, error, prog, nextId, base_score, initial_score,
                optimized_scores, round, results, savefile,
                steps, optIn, optOut, evalLog, built, emitted, earlier>>
vars == <<combVars, metricVars, passVars, poolVars, progVars, mainVars>>

(***************************************************************************)
(* Bounds                                                                  *)
(***************************************************************************)
MaxAxisLen == 2
MaxExamples == 4
MaxThreads == 5
PoolExamples == 5
MaxLayers == 4
MaxBuf == 2
MainAxisLen == 2

(***************************************************************************)
(* Command surface: the values each axis of the matrix is drawn from.      *)
(***************************************************************************)
Variants       == {"basic", "residual", "buffered"}
LayerCounts    == {1, 2}
BufSizes       == {1, 2}
CritiqueModels == {"", "gpt-3.5-turbo-instruct", "gpt-4"}

\* argparse nargs="+" lists: non-empty; the claims consider duplicate-free ones
DupFreeSeqs(S, n) ==
    { s \in UNION { [1..m -> S] : m \in 1..n } :
        \A p, q \in 1..Len(s) : p # q => s[p] # s[q] }

ArgSpace ==
    [ attack_program : DupFreeSeqs(Variants, MaxAxisLen),
      num_layers     : DupFreeSeqs(LayerCounts, MaxAxisLen),
      buf_size       : DupFreeSeqs(BufSizes, MaxAxisLen),
      critique_model : DupFreeSeqs(CritiqueModels, MaxAxisLen) ]

(***************************************************************************)
(* get_setting_combinations                                                *)
(***************************************************************************)
\* itertools.product of two lists: the left list is the outer loop
RECURSIVE Product(_, _)
Product(A, B) ==
    IF A = <<>> THEN <<>>
    ELSE [ j \in 1..Len(B) |-> <<Head(A), B[j]>> ] \o Product(Tail(A), B)

BufCritIt_AlwaysProduct(attack_program, a) ==
    Product(a.buf_size, a.critique_model)

\* buf_crit_it: the (buf_size, critique_model) pairs of one (variant, layers)
BufCritIt(attack_program, a) ==
    IF attack_program = "buffered"
    THEN Product(a.buf_size, a.critique_model)
    ELSE << <<0, "">> >>

RECURSIVE ExtendSettings(_, _, _)
ExtendSettings(acc, outer, a) ==
    IF outer = <<>> THEN acc
    ELSE LET ap == Head(outer)[1]
             nl == Head(outer)[2]
             it == BufCritIt(ap, a)
         IN  ExtendSettings(
                 acc \o [ j \in 1..Len(it) |->
                            [ attack_program |-> ap,
                              num_layers     |-> nl,
                              buf_size       |-> it[j][1],
                              critique_model |-> it[j][2] ] ],
                 Tail(outer), a)

get_setting_combinations(a) ==
    ExtendSettings(<<>>, Product(a.attack_program, a.num_layers), a)

IdleComb ==
    /\ args = [ attack_program |-> <<"basic">>, num_layers |-> <<1>>,
                buf_size |-> <<1>>, critique_model |-> <<"">> ]
    /\ settings = <<>>
    /\ combPc = "idle"

CombCall ==
    /\ combPc = "start"
    /\ settings' = get_setting_combinations(args)
    /\ combPc' = "done"
    /\ UNCHANGED <<args, metricVars, passVars, poolVars, progVars, mainVars>>

(***************************************************************************)
(* metric                                                                  *)
(***************************************************************************)
\* The judge scales a deployment may declare, <<lowest, highest>> in halves:
\* the binary 0..1 and the graded 1..10.
DeclaredScales == { <<0, 2>>, <<2, 20>> }

\* judge_prompt(...)[0]: a validated rating lies within the declared scale
JudgeRatings(sc) == sc[1]..sc[2]

\* Python's round(): nearest integer, a tie goes to the even one
PyRound(h) ==
    IF h % 2 = 0 THEN h
    ELSE IF (h \div 2) % 2 = 0 THEN 2 * (h \div 2) ELSE 2 * ((h \div 2) + 1)

\* lines 56-58: the value metric returns for the judge's rating
metric(judged, round_requested) ==
    IF round_requested THEN PyRound(judged) ELSE judged

IdleMetric ==
    /\ scale = <<0, 2>>
    /\ rating = 0
    /\ eval_round = FALSE
    /\ metricRet = 0
    /\ metricErr = "none"
    /\ metricPc = "idle"

\* line 49: the target model answers
GetResponse ==
    /\ metricPc = "start"
    /\ metricPc' = "responded"
    /\ UNCHANGED <<scale, rating, eval_round, metricRet, metricErr, combVars, passVars, poolVars, progVars, mainVars>>

\* line 55: the judge returns a validated rating
JudgePrompt ==
    /\ metricPc = "responded"
    /\ \E r \in JudgeRatings(scale) : rating' = r
    /\ metricPc' = "judged"
    /\ UNCHANGED <<scale, eval_round, metricRet, metricErr, combVars, passVars, poolVars, progVars, mainVars>>

\* lines 56-58
MetricReturn ==
    /\ metricPc = "judged"
    /\ metricRet' = metric(rating, eval_round)
    /\ metricPc' = "returned"
    /\ UNCHANGED <<scale, rating, eval_round, metricErr, combVars, passVars, poolVars, progVars, mainVars>>

\* an InvocationFailure of the target call or a ValidationFailure of the judge
\* call leaves metric as an exception
MetricRaises ==
    /\ \/ metricPc = "start" /\ metricErr' = "InvocationFailure"
       \/ metricPc = "responded" /\ metricErr' \in {"InvocationFailure", "ValidationFailure"}
    /\ metricPc' = "raised"
    /\ UNCHANGED <<scale, rating, eval_round, metricRet, combVars, passVars, poolVars, progVars, mainVars>>

(***************************************************************************)
(* evaluate_baseline and eval_program_manual: the sequential passes        *)
(***************************************************************************)
RECURSIVE Sum(_)
Sum(s) == IF s = <<>> THEN 0 ELSE Head(s) + Sum(Tail(s))

\* the float a pass returns, as the exact fraction num/den (in halves)
BaselineAggregate_NoDivision(total, n) == [ num |-> total, den |-> 1 ]

\* line 107: base_score /= len(valset)
BaselineAggregate(total, n) == [ num |-> total, den |-> n ]

\* line 68: return score
ManualAggregate(total) == [ num |-> total, den |-> 1 ]

IdlePass ==
    /\ passKind = "none"
    /\ valset = <<>>
    /\ visited = <<>>
    /\ score = 0
    /\ scoreLog = <<>>
    /\ failedAt = 0
    /\ passRet = [ num |-> 0, den |-> 1 ]
    /\ passPc = "idle"

\* one iteration of the for loop of either pass: the metric returns
PassIteration ==
    /\ visited # valset
    /\ LET ex == valset[Len(visited) + 1]
       IN  \E r \in JudgeRatings(scale) :
             /\ score' = score + metric(r, TRUE)
             /\ scoreLog' = Append(scoreLog, metric(r, TRUE))
             /\ visited' = Append(visited, ex)
    /\ UNCHANGED <<passKind, valset, failedAt, passRet, passPc>>

\* one iteration in which the metric (or, in eval_program_manual, the program
\* call) raises: nothing catches it, the exception leaves the pass
PassIterationRaises ==
    /\ visited # valset
    /\ failedAt' = Len(visited) + 1
    /\ passPc' = "raised"
    /\ UNCHANGED <<passKind, valset, visited, score, scoreLog, passRet>>

\* lines 102-106
EvaluateBaselineStep ==
    /\ passKind = "evaluate_baseline" /\ passPc = "loop"
    /\ PassIteration
    /\ UNCHANGED <<combVars, metricVars, poolVars, progVars, mainVars>>

EvaluateBaselineRaises ==
    /\ passKind = "evaluate_baseline" /\ passPc = "loop"
    /\ PassIterationRaises
    /\ UNCHANGED <<combVars, metricVars, poolVars, progVars, mainVars>>

\* lines 107-110; an empty valset divides by zero
EvaluateBaselineReturn ==
    /\ passKind = "evaluate_baseline" /\ passPc = "loop"
    /\ visited = valset
    /\ IF Len(valset) = 0
       THEN passPc' = "raised" /\ UNCHANGED passRet
       ELSE passPc' = "returned" /\ passRet' = BaselineAggregate(score, Len(valset))
    /\ UNCHANGED <<passKind, valset, visited, score, scoreLog, failedAt>>
    /\ UNCHANGED <<combVars, metricVars, poolVars, progVars, mainVars>>

\* lines 62-67
EvalProgramManualStep ==
    /\ passKind = "eval_program_manual" /\ passPc = "loop"
    /\ PassIteration
    /\ UNCHANGED <<combVars, metricVars, poolVars, progVars, mainVars>>

EvalProgramManualRaises ==
    /\ passKind = "eval_program_manual" /\ passPc = "loop"
    /\ PassIterationRaises
    /\ UNCHANGED <<combVars, metricVars, poolVars, progVars, mainVars>>

\* line 68
EvalProgramManualReturn ==
    /\ passKind = "eval_program_manual" /\ passPc = "loop"
    /\ visited = valset
    /\ passPc' = "returned"
    /\ passRet' = ManualAggregate(score)
    /\ UNCHANGED <<passKind, valset, visited, score, scoreLog, failedAt>>
    /\ UNCHANGED <<combVars, metricVars, poolVars, progVars, mainVars>>

(***************************************************************************)
(* eval_program and compile_program: the concurrent harness calls          *)
(***************************************************************************)
CompilePoolSize_Default(nt) == 4

\* lines 128, 139 and 212: eval_kwargs num_threads is main's args.num_threads
CompilePoolSize(nt) == nt

\* line 117: Evaluate(..., num_threads=4, ...)
EvalPoolSize == 4

IdlePool ==
    /\ num_threads = 4
    /\ callKind = "none"
    /\ poolSize = 0
    /\ pending = {}
    /\ inFlight = {}
    /\ poolPc = "idle"

\* line 212: main calls compile_program(prog, trainset, 2, args.num_threads)
CompileProgramCall ==
    /\ poolPc = "main"
    /\ callKind' = "compile_program"
    /\ poolSize' = CompilePoolSize(num_threads)
    /\ pending' = 1..PoolExamples
    /\ inFlight' = {}
    /\ poolPc' = "running"
    /\ UNCHANGED <<num_threads, combVars, metricVars, passVars, progVars, mainVars>>

\* lines 209 and 213: main calls eval_program(prog, valset)
EvalProgramCall ==
    /\ poolPc = "main"
    /\ callKind' = "eval_program"
    /\ poolSize' = EvalPoolSize
    /\ pending' = 1..PoolExamples
    /\ inFlight' = {}
    /\ poolPc' = "running"
    /\ UNCHANGED <<num_threads, combVars, metricVars, passVars, progVars, mainVars>>

\* a free worker of the pool takes the next example and calls the metric
WorkerStart ==
    /\ poolPc = "running"
    /\ Cardinality(inFlight) < poolSize
    /\ \E ex \in pending :
         /\ pending' = pending \ {ex}
         /\ inFlight' = inFlight \cup {ex}
    /\ UNCHANGED <<num_threads, callKind, poolSize, poolPc>>
    /\ UNCHANGED <<combVars, metricVars, passVars, progVars, mainVars>>

\* a metric evaluation ends (with a score or an error) and frees its worker
WorkerFinish ==
    /\ poolPc = "running"
    /\ \E ex \in inFlight : inFlight' = inFlight \ {ex}
    /\ UNCHANGED <<num_threads, callKind, poolSize, pending, poolPc>>
    /\ UNCHANGED <<combVars, metricVars, passVars, progVars, mainVars>>

\* the harness call returns once every example has been evaluated
HarnessReturn ==
    /\ poolPc = "running"
    /\ pending = {} /\ inFlight = {}
    /\ poolPc' = "main"
    /\ UNCHANGED <<num_threads, callKind, poolSize, pending, inFlight>>
    /\ UNCHANGED <<combVars, metricVars, passVars, progVars, mainVars>>

(***************************************************************************)
(* choose_attack_program and the execution of an attack program            *)
(***************************************************************************)
choose_attack_program_LayersAsBuf(choice, s) ==
    IF choice = "buffered"
    THEN [ module |-> "module_residual_buffer", num_layers |-> s.num_layers,
           buf_size |-> s.num_layers, critique_model |-> s.critique_model ]
    ELSE [ module |-> IF choice = "basic" THEN "module_basic" ELSE "module_residual",
           num_layers |-> s.num_layers, buf_size |-> 0, critique_model |-> "" ]

\* lines 37-45: the constructor arguments each variant receives; the basic and
\* residual programs receive the layer count only
choose_attack_program(choice, s) ==
    IF choice = "basic"
    THEN [ module |-> "module_basic", num_layers |-> s.num_layers,
           buf_size |-> 0, critique_model |-> "" ]
    ELSE IF choice = "residual"
    THEN [ module |-> "module_residual", num_layers |-> s.num_layers,
           buf_size |-> 0, critique_model |-> "" ]
    ELSE [ module |-> "module_residual_buffer", num_layers |-> s.num_layers,
           buf_size |-> s.buf_size, critique_model |-> s.critique_model ]

\* module_residual_buffer.AttackProgram.__init__: a buffered program needs a
\* critique-model identifier
ConfigurationError(p) ==
    p.module = "module_residual_buffer" /\ p.critique_model = ""

\* the bounded FIFO history: append, then drop the oldest entry when over capacity
BufferInsert(buf, entry, cap) ==
    LET b == Append(buf, entry)
    IN  IF Len(b) > cap THEN Tail(b) ELSE b

Critiques == {"c1", "c2"}

IdleProg ==
    /\ bSetting = [ attack_program |-> "basic", num_layers |-> 1,
                    buf_size |-> 0, critique_model |-> "" ]
    /\ bProg = choose_attack_program("basic", bSetting)
    /\ buffer = <<>>
    /\ inserted = <<>>
    /\ layer = 0
    /\ bufPc = "idle"

\* lines 202-207: the program of the setting is constructed
ChooseAttackProgram ==
    /\ bufPc = "choose"
    /\ bProg' = choose_attack_program(bSetting.attack_program, bSetting)
    /\ bufPc' = IF ConfigurationError(bProg') THEN "raised" ELSE "ready"
    /\ UNCHANGED <<bSetting, buffer, inserted, layer>>
    /\ UNCHANGED <<combVars, metricVars, passVars, poolVars, mainVars>>

\* prog(harmful_intent=...): an execution starts with an empty buffer and
\* runs the first layer
ProgramStart ==
    /\ bufPc = "ready"
    /\ bProg.num_layers >= 1
    /\ buffer' = <<>>
    /\ inserted' = <<>>
    /\ layer' = 1
    /\ bufPc' = "running"
    /\ UNCHANGED <<bSetting, bProg>>
    /\ UNCHANGED <<combVars, metricVars, passVars, poolVars, mainVars>>

\* a layer after the first: in the buffered variant the previous attempt is
\* critiqued and the pair enters the buffer before the layer generates
LayerStep ==
    /\ bufPc = "running"
    /\ layer < bProg.num_layers
    /\ layer' = layer + 1
    /\ IF bProg.module = "module_residual_buffer"
       THEN \E c \in Critiques :
              /\ buffer' = BufferInsert(buffer, <<layer, c>>, bProg.buf_size)
              /\ inserted' = Append(inserted, <<layer, c>>)
       ELSE UNCHANGED <<buffer, inserted>>
    /\ UNCHANGED <<bSetting, bProg, bufPc>>
    /\ UNCHANGED <<combVars, metricVars, passVars, poolVars, mainVars>>

\* the last layer's output is returned; the buffer is discarded
ProgramReturn ==
    /\ bufPc = "running"
    /\ layer = bProg.num_layers
    /\ bufPc' = "ready"
    /\ UNCHANGED <<bSetting, bProg, buffer, inserted, layer>>
    /\ UNCHANGED <<combVars, metricVars, passVars, poolVars, mainVars>>

(***************************************************************************)
(* main                                                                    *)
(***************************************************************************)
\* line 211: for i in range(15)
NumRounds == 15

\* a program object: its identity and what it was constructed from
NoProg == [ id |-> 0, cfg |-> choose_attack_program("basic", [ num_layers |-> 1 ]) ]

\* the float eval_program returns for a program, kept as the tag of the
\* evaluation that produced it
eval_program(p) == [ score_of |-> p.id ]

NextRoundProg_KeepCurrent(cur, returned) == cur

\* line 212: prog = compile_program(prog, ...)
NextRoundProg(cur, returned) == returned

AppendScore_Overwrite(scores, sc) == <<sc>>

\* line 213: optimized_scores.append(eval_program(prog, valset))
AppendScore(scores, sc) == Append(scores, sc)

\* str(optimized_scores): the text lists the scores in list order
Str(scores) == [ str_of |-> scores ]

\* the baseline scores of a two-example validation set, scores 0 or 1 each
BaselineOutcomes == { BaselineAggregate(t, 2) : t \in {0, 4} }

IdleMain ==
    /\ save = FALSE
    /\ i = 0
    /\ pc = "idle"
    /\ error = "none"
    /\ prog = NoProg
    /\ nextId = 1
    /\ base_score = [ num |-> 0, den |-> 1 ]
    /\ initial_score = eval_program(NoProg)
    /\ optimized_scores = <<>>
    /\ round = 0
    /\ results = <<>>
    /\ savefile = <<>>
    /\ steps = <<>>
    /\ optIn = <<>>
    /\ optOut = <<>>
    /\ evalLog = <<>>
    /\ built = 0
    /\ emitted = <<>>
    /\ earlier = {}

otherVars == <<combVars, metricVars, passVars, poolVars, progVars>>

\* line 195: the for loop is exhausted
MainDone ==
    /\ pc = "loop"
    /\ i > Len(settings)
    /\ pc' = "done"
    /\ UNCHANGED <<save, i, error, prog, nextId, base_score, initial_score,
                   optimized_scores, round, results, savefile,
                   steps, optIn, optOut, evalLog, built, emitted, earlier>>
    /\ UNCHANGED otherVars

\* lines 195-207: the next setting; its program is constructed. The
\* constructor's ConfigurationError is caught nowhere and ends main.
MainChooseAttackProgram ==
    /\ pc = "loop"
    /\ i <= Len(settings)
    /\ LET setting == settings[i]
           cfg == choose_attack_program(setting.attack_program, setting)
       IN  IF ConfigurationError(cfg)
           THEN /\ pc' = "crashed"
                /\ error' = "ConfigurationError"
                /\ UNCHANGED <<prog, nextId, steps, optIn, optOut, evalLog, built, earlier>>
           ELSE /\ prog' = [ id |-> nextId, cfg |-> cfg ]
                /\ nextId' = nextId + 1
                /\ built' = nextId
                /\ earlier' = 1..(nextId - 1)
                /\ steps' = <<"build">>
                /\ optIn' = <<>>
                /\ optOut' = <<>>
                /\ evalLog' = <<>>
                /\ pc' = "baseline"
                /\ UNCHANGED error
    /\ UNCHANGED <<save, i, base_score, initial_score, optimized_scores, round,
                   results, savefile, emitted>>
    /\ UNCHANGED otherVars

\* line 208: base_score = evaluate_baseline(valset)
MainEvaluateBaseline ==
    /\ pc = "baseline"
    /\ \E b \in BaselineOutcomes : base_score' = b
    /\ steps' = Append(steps, "baseline")
    /\ pc' = "initial"
    /\ UNCHANGED <<save, i, error, prog, nextId, initial_score, optimized_scores,
                   round, results, savefile, optIn, optOut, evalLog, built,
                   emitted, earlier>>
    /\ UNCHANGED otherVars

\* line 208, a metric call of the baseline pass raises: main ends
MainEvaluateBaselineRaises ==
    /\ pc = "baseline"
    /\ pc' = "crashed"
    /\ error' = "MetricFailure"
    /\ UNCHANGED <<save, i, prog, nextId, base_score, initial_score,
                   optimized_scores, round, results, savefile,
                   steps, optIn, optOut, evalLog, built, emitted, earlier>>
    /\ UNCHANGED otherVars

\* lines 209-210: the initial score, and the empty trajectory
MainEvalInitial ==
    /\ pc = "initial"
    /\ initial_score' = eval_program(prog)
    /\ optimized_scores' = <<>>
    /\ round' = 0
    /\ steps' = Append(steps, "initial")
    /\ pc' = "round"
    /\ UNCHANGED <<save, i, error, prog, nextId, base_score, results, savefile,
                   optIn, optOut, evalLog, built, emitted, earlier>>
    /\ UNCHANGED otherVars

\* line 212, the call: compile_program receives the current prog
MainCompileCall ==
    /\ pc = "round"
    /\ round < NumRounds
    /\ optIn' = Append(optIn, prog.id)
    /\ steps' = Append(steps, "optimize")
    /\ pc' = "compiling"
    /\ UNCHANGED <<save, i, error, prog, nextId, base_score, initial_score,
                   optimized_scores, round, results, savefile, optOut, evalLog,
                   built, emitted, earlier>>
    /\ UNCHANGED otherVars

\* lines 132-142 and 212, the return: the optimizer hands back a program
\* object of the same architecture, which main assigns to prog
MainCompileReturn ==
    /\ pc = "compiling"
    /\ LET best_prog == [ id |-> nextId, cfg |-> prog.cfg ]
       IN  /\ prog' = NextRoundProg(prog, best_prog)
           /\ optOut' = Append(optOut, best_prog.id)
    /\ nextId' = nextId + 1
    /\ pc' = "evaluating"
    /\ UNCHANGED <<save, i, error, base_score, initial_score, optimized_scores,
                   round, results, savefile, steps, optIn, evalLog, built,
                   emitted, earlier>>
    /\ UNCHANGED otherVars

\* line 213: the round's evaluation is appended to the trajectory
MainEvalRound ==
    /\ pc = "evaluating"
    /\ optimized_scores' = AppendScore(optimized_scores, eval_program(prog))
    /\ evalLog' = Append(evalLog, eval_program(prog))
    /\ round' = round + 1
    /\ steps' = Append(steps, "eval")
    /\ pc' = "round"
    /\ UNCHANGED <<save, i, error, prog, nextId, base_score, initial_score,
                   results, savefile, optIn, optOut, built, emitted, earlier>>
    /\ UNCHANGED otherVars

\* lines 215-232: the result record of the setting, appended to the save file
\* when --save is given; then the next iteration of the for loop
MainRecord ==
    /\ pc = "round"
    /\ round = NumRounds
    /\ LET setting == settings[i]
           rec == [ baseline       |-> base_score,
                    initial        |-> initial_score,
                    optimized      |-> Str(optimized_scores),
                    attack_program |-> setting.attack_program,
                    num_layers     |-> setting.num_layers,
                    buf_size       |-> setting.buf_size,
                    critique_model |-> setting.critique_model ]
       IN  /\ results' = <<rec>>
           /\ emitted' = Append(emitted, [ setting |-> i, record |-> rec ])
           /\ savefile' = IF save THEN Append(savefile, rec) ELSE savefile
    /\ i' = i + 1
    /\ pc' = "loop"
    /\ UNCHANGED <<save, error, prog, nextId, base_score, initial_score,
                   optimized_scores, round, steps, optIn, optOut, evalLog,
                   built, earlier>>
    /\ UNCHANGED otherVars

(***************************************************************************)
(* Specifications                                                          *)
(***************************************************************************)
InitComb ==
    /\ args \in ArgSpace
    /\ settings = <<>>
    /\ combPc = "start"
    /\ IdleMetric
    /\ IdlePass
    /\ IdlePool
    /\ IdleProg
    /\ IdleMain

NextComb == CombCall

SpecComb == InitComb /\ [][NextComb]_vars

InitMetric ==
    /\ scale \in DeclaredScales
    /\ eval_round \in BOOLEAN
    /\ rating = scale[1]
    /\ metricRet = 0
    /\ metricErr = "none"
    /\ metricPc = "start"
    /\ IdleComb
    /\ IdlePass
    /\ IdlePool
    /\ IdleProg
    /\ IdleMain

NextMetric == GetResponse \/ JudgePrompt \/ MetricReturn \/ MetricRaises

SpecMetric == InitMetric /\ [][NextMetric]_vars

InitPass ==
    /\ passKind \in {"evaluate_baseline", "eval_program_manual"}
    /\ \E n \in 0..MaxExamples : valset = [ j \in 1..n |-> j ]
    /\ scale \in DeclaredScales
    /\ rating = scale[1] /\ eval_round = TRUE /\ metricRet = 0
    /\ metricErr = "none" /\ metricPc = "idle"
    /\ visited = <<>>
    /\ score = 0
    /\ scoreLog = <<>>
    /\ failedAt = 0
    /\ passRet = [ num |-> 0, den |-> 1 ]
    /\ passPc = "loop"
    /\ IdleComb
    /\ IdlePool
    /\ IdleProg
    /\ IdleMain

NextPass ==
    \/ EvaluateBaselineStep \/ EvaluateBaselineRaises \/ EvaluateBaselineReturn
    \/ EvalProgramManualStep \/ EvalProgramManualRaises \/ EvalProgramManualReturn

SpecPass == InitPass /\ [][NextPass]_vars

InitPool ==
    /\ num_threads \in 1..MaxThreads
    /\ callKind = "none"
    /\ poolSize = 0
    /\ pending = {}
    /\ inFlight = {}
    /\ poolPc = "main"
    /\ IdleComb
    /\ IdleMetric
    /\ IdlePass
    /\ IdleProg
    /\ IdleMain

NextPool ==
    CompileProgramCall \/ EvalProgramCall \/ WorkerStart \/ WorkerFinish \/ HarnessReturn

SpecPool == InitPool /\ [][NextPool]_vars

InitProg ==
    /\ bSetting \in [ attack_program : Variants, num_layers : 1..MaxLayers,
                      buf_size : 0..MaxBuf, critique_model : CritiqueModels ]
    /\ bSetting.attack_program # "buffered" =>
           bSetting.buf_size = 0 /\ bSetting.critique_model = ""
    /\ bProg = choose_attack_program("basic", [ num_layers |-> 1 ])
    /\ buffer = <<>>
    /\ inserted = <<>>
    /\ layer = 0
    /\ bufPc = "choose"
    /\ IdleComb
    /\ IdleMetric
    /\ IdlePass
    /\ IdlePool
    /\ IdleMain

NextProg == ChooseAttackProgram \/ ProgramStart \/ LayerStep \/ ProgramReturn

SpecProg == InitProg /\ [][NextProg]_vars

\* lines 192-194: the arguments are parsed and the matrix is expanded
MainArgSpace ==
    [ attack_program : DupFreeSeqs(Variants, MainAxisLen),
      num_layers     : { <<1>> },
      buf_size       : { <<1>> },
      critique_model : DupFreeSeqs({"", "gpt-3.5-turbo-instruct"}, MainAxisLen) ]

InitMain ==
    /\ args \in MainArgSpace
    /\ settings = get_setting_combinations(args)
    /\ combPc = "done"
    /\ save \in BOOLEAN
    /\ i = 1
    /\ pc = "loop"
    /\ error = "none"
    /\ prog = NoProg
    /\ nextId = 1
    /\ base_score = [ num |-> 0, den |-> 1 ]
    /\ initial_score = eval_program(NoProg)
    /\ optimized_scores = <<>>
    /\ round = 0
    /\ results = <<>>
    /\ savefile = <<>>
    /\ steps = <<>>
    /\ optIn = <<>>
    /\ optOut = <<>>
    /\ evalLog = <<>>
    /\ built = 0
    /\ emitted = <<>>
    /\ earlier = {}
    /\ IdleMetric
    /\ IdlePass
    /\ IdlePool
    /\ IdleProg

NextMain ==
    \/ MainChooseAttackProgram \/ MainEvaluateBaseline \/ MainEvaluateBaselineRaises
    \/ MainEvalInitial \/ MainCompileCall \/ MainCompileReturn \/ MainEvalRound
    \/ MainRecord \/ MainDone

SpecMain == InitMain /\ [][NextMain]_vars

(***************************************************************************)
(* C1                                                                      *)
(***************************************************************************)
SeqToSet(s) == { s[j] : j \in 1..Len(s) }

Occurrences(s, x) == Cardinality({ j \in 1..Len(s) : s[j] = x })

ExpectedSettings(a) ==
    { [ attack_program |-> ap, num_layers |-> nl, buf_size |-> b, critique_model |-> c ] :
        ap \in SeqToSet(a.attack_program) \ {"buffered"},
        nl \in SeqToSet(a.num_layers), b \in {0}, c \in {""} }
    \cup
    { [ attack_program |-> ap, num_layers |-> nl, buf_size |-> b, critique_model |-> c ] :
        ap \in SeqToSet(a.attack_program) \cap {"buffered"},
        nl \in SeqToSet(a.num_layers),
        b \in SeqToSet(a.buf_size), c \in SeqToSet(a.critique_model) }

\* C1: for duplicate-free axes, the returned list holds exactly one setting per
\* (variant, layers, buf_size, critique_model) tuple of a buffered variant and
\* exactly one (variant, layers, 0, "") setting per pair of a non-buffered
\* variant: nothing omitted, nothing duplicated, nothing else.
C1_ExactlyOnePerCombination ==
    combPc = "done" =>
        /\ SeqToSet(settings) = ExpectedSettings(args)
        /\ \A x \in ExpectedSettings(args) : Occurrences(settings, x) = 1
        /\ Len(settings) = Cardinality(ExpectedSettings(args))

\* a matrix mixing a buffered and a non-buffered variant over two buffer sizes
C1_Witness ==
    /\ combPc = "done"
    /\ "buffered" \in SeqToSet(args.attack_program)
    /\ "basic" \in SeqToSet(args.attack_program)
    /\ Len(args.buf_size) = 2
    /\ Len(args.critique_model) = 2
    /\ Len(settings) = Len(args.num_layers) * 5

(***************************************************************************)
(* C6                                                                      *)
(***************************************************************************)
\* C6: every value metric returns lies in the declared judge range, and when
\* rounding is requested the value is 0 or 1 (0 or 2 in halves).
C6_InRangeAndBinaryWhenRounded ==
    metricPc = "returned" =>
        /\ metricRet \in scale[1]..scale[2]
        /\ eval_round => metricRet \in {0, 2}

(***************************************************************************)
(* C4                                                                      *)
(***************************************************************************)
\* C4: a pass in which the metric of one example fails is not aborted; it goes
\* on over the remaining examples.
C4_FailingExampleDoesNotAbortPass ==
    failedAt # 0 => passPc # "raised"

(***************************************************************************)
(* C10                                                                     *)
(***************************************************************************)
\* C10 as stated: a pass over a non-empty set returns the mean of the
\* per-example scores, whichever of the two passes it is.
C10_EveryPassReturnsMean ==
    (passPc = "returned" /\ valset # <<>>) =>
        passRet.num * Len(valset) = Sum(scoreLog) * passRet.den

\* C10 amended: a returning pass has evaluated each example exactly once, in
\* order; evaluate_baseline returns the mean of the per-example scores (0.5
\* for 1,0,1,0) and eval_program_manual returns their sum (2 for 1,0,1,0).
C10_BaselineMeanManualSum ==
    (passPc = "returned" /\ valset # <<>>) =>
        /\ visited = valset
        /\ Len(scoreLog) = Len(valset)
        /\ passKind = "evaluate_baseline" =>
              /\ passRet.num * Len(valset) = Sum(scoreLog) * passRet.den
              /\ scoreLog = <<2, 0, 2, 0>> => passRet.num * 1 = 1 * passRet.den
        /\ passKind = "eval_program_manual" =>
              /\ passRet.num = Sum(scoreLog) * passRet.den
              /\ scoreLog = <<2, 0, 2, 0>> => passRet.num = 4 * passRet.den

\* the baseline pass has returned over four examples scored 1,0,1,0
C10_Witness ==
    /\ passPc = "returned"
    /\ passKind = "evaluate_baseline"
    /\ scoreLog = <<2, 0, 2, 0>>
    /\ passRet = [ num |-> 4, den |-> 4 ]

(***************************************************************************)
(* C8                                                                      *)
(***************************************************************************)
\* C8 as stated: in every concurrent harness call the number of metric
\* evaluations in flight never exceeds the configured --num_threads, which is
\* the pool size of the call.
C8_InFlightWithinConfiguredThreads ==
    poolPc = "running" =>
        /\ Cardinality(inFlight) <= num_threads
        /\ poolSize = num_threads

\* C8 amended: the evaluations in flight never exceed the pool size of the
\* call, which is --num_threads inside an optimize call and the fixed 4 in
\* eval_program.
C8_InFlightWithinPoolOfCall ==
    poolPc = "running" =>
        /\ Cardinality(inFlight) <= poolSize
        /\ callKind = "compile_program" => poolSize = num_threads
        /\ callKind = "eval_program" => poolSize = 4

\* an optimize call configured with three threads has all three busy
C8_Witness ==
    /\ poolPc = "running"
    /\ callKind = "compile_program"
    /\ num_threads = 3
    /\ Cardinality(inFlight) = 3
    /\ pending # {}

(***************************************************************************)
(* C9                                                                      *)
(***************************************************************************)
LastN(s, n) ==
    IF Len(s) <= n THEN s ELSE SubSeq(s, Len(s) - n + 1, Len(s))

\* C9: while a buffered program runs over one intent its buffer holds at most
\* buf_size entries, namely the most recently inserted ones in insertion
\* order, and it is empty when the execution starts.
C9_BufferBoundedFifo ==
    (bufPc = "running" /\ bSetting.attack_program = "buffered") =>
        /\ Len(buffer) <= bSetting.buf_size
        /\ buffer = LastN(inserted, bSetting.buf_size)
        /\ inserted = <<>> => buffer = <<>>

\* buf_size 2 and three insertions: the first inserted entry is gone
C9_Witness ==
    /\ bufPc = "running"
    /\ bSetting.attack_program = "buffered"
    /\ bSetting.buf_size = 2
    /\ Len(inserted) = 3
    /\ Len(buffer) = 2
    /\ buffer[1] = inserted[2] /\ buffer[2] = inserted[3]

(***************************************************************************)
(* C2                                                                      *)
(***************************************************************************)
RECURSIVE Rounds(_)
Rounds(n) == IF n = 0 THEN <<>> ELSE Rounds(n - 1) \o <<"optimize", "eval">>

ExpectedSteps == <<"build", "baseline", "initial">> \o Rounds(NumRounds)

IsPrefix(s, t) == Len(s) <= Len(t) /\ s = SubSeq(t, 1, Len(s))

\* C2: the steps of a setting are build, baseline, initial, then NumRounds
\* times optimize followed by eval, in this order; once a setting has
\* finished there is exactly one result record for it, whose trajectory is
\* the round evaluations in round order.
C2_StepsInOrderOneRecordPerSetting ==
    /\ IsPrefix(steps, ExpectedSteps)
    /\ Len(emitted) = i - 1
    /\ save => Len(savefile) = i - 1
    /\ \A j \in 1..Len(emitted) :
         /\ emitted[j].setting = j
         /\ emitted[j].record.attack_program = settings[j].attack_program
         /\ emitted[j].record.critique_model = settings[j].critique_model
         /\ Len(emitted[j].record.optimized.str_of) = NumRounds
         /\ save => savefile[j] = emitted[j].record
    /\ (pc = "loop" /\ i > 1) =>
         /\ steps = ExpectedSteps
         /\ results = <<emitted[i - 1].record>>
         /\ results[1].optimized.str_of = evalLog
         /\ Len(evalLog) = NumRounds
         /\ \A k \in 1..NumRounds : evalLog[k] = eval_program([ id |-> optOut[k] ])

\* the second setting of a saved run has just been recorded
C2_Witness ==
    /\ pc = "loop"
    /\ i = 3
    /\ save
    /\ Len(savefile) = 2
    /\ Len(results[1].optimized.str_of) = NumRounds

(***************************************************************************)
(* C3                                                                      *)
(***************************************************************************)
\* C3: within a setting the first optimize call receives the freshly built
\* program and every later one receives the program the previous call
\* returned; at most one optimize call is under way; the program a setting
\* starts from did not exist in any earlier setting.
C3_RoundsChainFromFreshProgram ==
    /\ \A k \in 1..Len(optIn) :
         optIn[k] = IF k = 1 THEN built ELSE optOut[k - 1]
    /\ Len(optIn) - Len(optOut) \in {0, 1}
    /\ (Len(optIn) - Len(optOut) = 1) <=> (pc = "compiling")
    /\ built \notin earlier

\* a later round of the second setting is being optimized
C3_Witness ==
    /\ pc = "compiling"
    /\ i = 2
    /\ Len(optIn) = 3
    /\ optIn[3] = optOut[2]
    /\ earlier # {}

(***************************************************************************)
(* C5                                                                      *)
(***************************************************************************)
\* C5: a ConfigurationError of one setting does not stop the run; when the
\* run has ended every setting of the matrix has a result record (a degraded
\* one for the invalid setting).
C5_InvalidSettingDoesNotStopRun ==
    (pc \in {"done", "crashed"} /\ error # "MetricFailure") =>
        { emitted[j].setting : j \in 1..Len(emitted) } = 1..Len(settings)

====
